---- MODULE Spec2Model ----
(***************************************************************************)
(* A model of the Locker engine of angular-locker (src/src/angular-locker.js): *)
(* namespaced keys, JSON (de)serialization, optional SJCL encryption,      *)
(* change events, derived instances and scope bindings.                    *)
(*                                                                         *)
(* JavaScript strings are sequences of one-character strings, so that      *)
(* concatenation, String.split, Array.join, JSON text and watcher ids are  *)
(* computed the way the code computes them.                                *)
(***************************************************************************)
EXTENDS Integers, Sequences, FiniteSets, TLC

\* ------------------------------------------------------------------ strings

RECURSIVE IndexOfFrom(_, _, _)
\* String.prototype.indexOf(sep, from), 1-based; 0 when sep does not occur.
IndexOfFrom(s, sep, from) ==
    IF from + Len(sep) - 1 > Len(s) THEN 0
    ELSE IF SubSeq(s, from, from + Len(sep) - 1) = sep THEN from
    ELSE IndexOfFrom(s, sep, from + 1)

RECURSIVE Split(_, _)
\* key.split(separator) for a non-empty separator: the sequence of segments.
Split(s, sep) ==
    LET i == IndexOfFrom(s, sep, 1) IN
    IF i = 0 THEN <<s>>
    ELSE <<SubSeq(s, 1, i - 1)>> \o Split(SubSeq(s, i + Len(sep), Len(s)), sep)

RECURSIVE Join(_, _)
\* split.join(separator)
Join(parts, sep) ==
    IF Len(parts) = 0 THEN <<>>
    ELSE IF Len(parts) = 1 THEN parts[1]
    ELSE parts[1] \o sep \o Join(Tail(parts), sep)

DigitChars == <<"0", "1", "2", "3", "4", "5", "6", "7", "8", "9">>

IsDigit(c) == \E d \in 1..10 : DigitChars[d] = c

DigitVal(c) == (CHOOSE d \in 1..10 : DigitChars[d] = c) - 1

RECURSIVE Digits(_)
\* Number to decimal text, as string concatenation and JSON do for a natural.
Digits(n) ==
    IF n < 10 THEN <<DigitChars[n + 1]>>
    ELSE Digits(n \div 10) \o <<DigitChars[(n % 10) + 1]>>

RECURSIVE ParseNat(_)
ParseNat(s) ==
    IF Len(s) = 0 THEN 0
    ELSE 10 * ParseNat(SubSeq(s, 1, Len(s) - 1)) + DigitVal(s[Len(s)])

\* ------------------------------------------------------- JavaScript values

\* Every value is a record of the same shape: t is the type tag, n the number
\* or boolean (1/0), s the characters of a string, a the elements of an array.
Undefined == [t |-> "undefined", n |-> 0, s |-> <<>>, a |-> <<>>]
Null      == [t |-> "null", n |-> 0, s |-> <<>>, a |-> <<>>]
Num(x)    == [t |-> "number", n |-> x, s |-> <<>>, a |-> <<>>]
Str(x)    == [t |-> "string", n |-> 0, s |-> x, a |-> <<>>]
Bool(b)   == [t |-> "boolean", n |-> IF b THEN 1 ELSE 0, s |-> <<>>, a |-> <<>>]
Arr(xs)   == [t |-> "array", n |-> 0, s |-> <<>>, a |-> xs]
\* The object JSON.parse makes of an SJCL ciphertext (a JSON object text).
CipherObj(ck, pt) == [t |-> "object", n |-> 0, s |-> pt, a |-> <<Str(ck)>>]

\* angular.isDefined / angular.isUndefined
isDefined(v) == v.t # "undefined"

\* angular.equals on the values of the model: same type and same content
\* (strict equality on scalars, element-wise on arrays).
equals(o1, o2) == o1 = o2

\* ------------------------------------------------------------ JSON encoding

Quote == "\""
Backslash == "\\"

RECURSIVE Escape(_)
\* JSON.stringify's escaping of the characters of a string.
Escape(s) ==
    IF Len(s) = 0 THEN <<>>
    ELSE (IF s[1] = Quote \/ s[1] = Backslash THEN <<Backslash, s[1]>> ELSE <<s[1]>>)
         \o Escape(Tail(s))

RECURSIVE toJson(_)
RECURSIVE ElementsToJson(_)
ElementsToJson(xs) ==
    IF Len(xs) = 0 THEN <<>>
    ELSE IF Len(xs) = 1 THEN toJson(xs[1])
    ELSE toJson(xs[1]) \o <<",">> \o ElementsToJson(Tail(xs))

\* angular.toJson(value) for a defined value: the JSON text.
toJson(v) ==
    CASE v.t = "null"    -> <<"n", "u", "l", "l">>
      [] v.t = "boolean" -> IF v.n = 1 THEN <<"t", "r", "u", "e">>
                                       ELSE <<"f", "a", "l", "s", "e">>
      [] v.t = "number"  -> Digits(v.n)
      [] v.t = "string"  -> <<Quote>> \o Escape(v.s) \o <<Quote>>
      [] v.t = "array"   -> <<"[">> \o ElementsToJson(v.a) \o <<"]">>
      [] OTHER           -> <<"{", "}">>

\* ------------------------------------------------------------ JSON decoding

\* The result of a parse: ok is FALSE when JSON.parse raises a SyntaxError.
ParseOk(v) == [ok |-> TRUE, v |-> v]
ParseFail  == [ok |-> FALSE, v |-> Undefined]

RECURSIVE Unescape(_)
\* The characters of a JSON string body; ok is FALSE on a bare quote or a
\* dangling backslash.
Unescape(s) ==
    IF Len(s) = 0 THEN [ok |-> TRUE, s |-> <<>>]
    ELSE IF s[1] = Quote THEN [ok |-> FALSE, s |-> <<>>]
    ELSE IF s[1] = Backslash THEN
        IF Len(s) < 2 \/ ~(s[2] = Quote \/ s[2] = Backslash)
        THEN [ok |-> FALSE, s |-> <<>>]
        ELSE LET r == Unescape(SubSeq(s, 3, Len(s))) IN
             [ok |-> r.ok, s |-> <<s[2]>> \o r.s]
    ELSE LET r == Unescape(Tail(s)) IN [ok |-> r.ok, s |-> <<s[1]>> \o r.s]

\* JSON.parse of a text that is one scalar.
ParseScalar(s) ==
    IF s = <<"n", "u", "l", "l">> THEN ParseOk(Null)
    ELSE IF s = <<"t", "r", "u", "e">> THEN ParseOk(Bool(TRUE))
    ELSE IF s = <<"f", "a", "l", "s", "e">> THEN ParseOk(Bool(FALSE))
    ELSE IF Len(s) >= 1 /\ (\A i \in 1..Len(s) : IsDigit(s[i]))
            /\ (Len(s) = 1 \/ s[1] # "0")
         THEN ParseOk(Num(ParseNat(s)))
    ELSE IF Len(s) >= 2 /\ s[1] = Quote /\ s[Len(s)] = Quote
         THEN LET r == Unescape(SubSeq(s, 2, Len(s) - 1)) IN
              IF r.ok THEN ParseOk(Str(r.s)) ELSE ParseFail
    ELSE ParseFail

RECURSIVE ParseElements(_)
\* The elements of an array body already split at its commas.
ParseElements(parts) ==
    IF Len(parts) = 0 THEN [ok |-> TRUE, a |-> <<>>]
    ELSE LET e == ParseScalar(parts[1])
             r == ParseElements(Tail(parts))
         IN [ok |-> e.ok /\ r.ok, a |-> <<e.v>> \o r.a]

\* JSON.parse: a scalar, or an array of scalars (no comma inside an element).
JsonParse(s) ==
    IF Len(s) >= 2 /\ s[1] = "[" /\ s[Len(s)] = "]"
    THEN LET inner == SubSeq(s, 2, Len(s) - 1) IN
         IF inner = <<>> THEN ParseOk(Arr(<<>>))
         ELSE LET r == ParseElements(Split(inner, <<",">>)) IN
              IF r.ok THEN ParseOk(Arr(r.a)) ELSE ParseFail
    ELSE ParseScalar(s)

\* ------------------------------------------------------------ configuration

\* The registered drivers (this._registeredDrivers).
Drivers == {"local", "session"}

\* defaults.separator
separator == <<".">>

\* The throwaway key of the capability probe (var l = 'l').
ProbeKey == <<"l">>

\* The logical keys callers use: plain, containing the separator, and the
\* probe key.
Keys == {<<"c">>, <<"b", ".", "c">>, <<"l">>}

\* The scopes of the page by $id, and the property paths bound on them.
ScopeIds == {2}
Props == {<<"c">>, <<"d">>}

MaxInstances == 2
MaxEntries == 2
MaxWatches == 2
MaxCalls == 2

VARIABLES
    storage,    \* $window.localStorage / $window.sessionStorage: entries per driver
    lockers,    \* the Locker instances created so far, the default one first
    events,     \* what the last operation published on $rootScope
    last,       \* the last operation: its arguments, outcome and return value
    host,       \* the page: whether window.sjcl is present, whether Storage can fail to be writable
    defaults,   \* the provider's defaults when $get ran
    scopes,     \* the value of each property of each scope
    watches     \* the subscriptions $scope.$watch has handed out, in order

vars == <<storage, lockers, events, last, host, defaults, scopes, watches>>

\* --------------------------------------------------------- Storage objects

\* A stored string: plain text, or what sjcl.encrypt made of text pt under
\* key ck (an opaque JSON object text that only sjcl.decrypt with ck opens).
Plain(chars)      == [enc |-> FALSE, ck |-> <<>>, s |-> chars]
Cipher(ck, chars) == [enc |-> TRUE, ck |-> ck, s |-> chars]

hasOwnProperty(S, p) == \E e \in S : e.key = p
getItem(S, p)        == (CHOOSE e \in S : e.key = p).raw
removeItem(S, p)     == {e \in S : e.key # p}
setItem(S, p, raw)   == removeItem(S, p) \cup {[key |-> p, raw |-> raw]}

TotalEntries(st) == Cardinality(st["local"]) + Cardinality(st["session"])

\* sjcl.encrypt(key, text, ...) and whether sjcl.decrypt(key, raw) succeeds;
\* it raises on text that is no ciphertext and on a ciphertext of another key.
encrypt(ck, chars) == Cipher(ck, chars)
canDecrypt(ck, raw) == raw.enc /\ raw.ck = ck
decrypt(ck, raw) == raw.s

\* A stored string as the JavaScript string it is.
RawString(raw) ==
    IF raw.enc THEN [t |-> "string", n |-> 1, s |-> raw.s, a |-> <<Str(raw.ck)>>]
    ELSE Str(raw.s)

\* ------------------------------------------------------- private functions

\* The effect of a call so far: the storages, this instance's _supported,
\* the events published, and the error raised ("none" while running).
WorldOf(st, L) == [st |-> st, sup |-> L.supported, ev |-> <<>>, err |-> "none"]

World(i) == WorldOf(storage, lockers[i])

Throw(w, e) == [w EXCEPT !.err = e]

\* A support check that probes on every call instead of caching the result.
_checkSupportEveryTime(w, driver, probeOk) ==
    LET d == IF driver = "" THEN "local" ELSE driver IN
    IF d \notin Drivers \/ ~probeOk
    THEN [w EXCEPT !.sup = Bool(FALSE)]
    ELSE [w EXCEPT !.sup = Bool(TRUE),
                   !.st[d] = removeItem(setItem(@, ProbeKey, Plain(ProbeKey)), ProbeKey)]

\* this._checkSupport(driver): driver "" stands for an omitted argument;
\* probeOk is whether the probe's setItem succeeds.
_checkSupport(w, driver, probeOk) ==
    IF w.sup # Undefined THEN w
    ELSE LET d == IF driver = "" THEN "local" ELSE driver IN
         IF d \notin Drivers \/ ~probeOk
         THEN [w EXCEPT !.sup = Bool(FALSE)]
         ELSE [w EXCEPT !.sup = Bool(TRUE),
                        !.st[d] = removeItem(setItem(@, ProbeKey, Plain(ProbeKey)), ProbeKey)]

\* A key codec that forgets the namespace: every instance shares one key space.
_getPrefixBare(L, key) == key

\* this._getPrefix(key)
_getPrefix(L, key) ==
    IF L.namespace = <<>> THEN key
    ELSE L.namespace \o L.separator \o key

\* this._serialize(value): the text angular.toJson gives
_serialize(value) == toJson(value)

\* A decoder that hands back the stored text without parsing it.
_unserializeVerbatim(raw) == RawString(raw)

\* this._unserialize(value) of a stored string
_unserialize(raw) ==
    IF raw.enc THEN CipherObj(raw.ck, raw.s)
    ELSE LET r == JsonParse(raw.s) IN IF r.ok THEN r.v ELSE Str(raw.s)

\* this._event(name, payload): the payload is extended with the driver id
\* and the namespace of the instance.
_event(w, L, e) ==
    IF L.eventsEnabled
    THEN [w EXCEPT !.ev = Append(@, [e EXCEPT !.driver = L.driver,
                                              !.namespace = L.namespace])]
    ELSE w

\* The payloads _setItem and _removeItem hand to _event.
Updated(key, oldVal, newVal) ==
    [name |-> "locker.item.updated", key |-> key, oldValue |-> oldVal,
     newValue |-> newVal, value |-> Undefined, driver |-> "", namespace |-> <<>>]
Added(key, value) ==
    [name |-> "locker.item.added", key |-> key, oldValue |-> Undefined,
     newValue |-> Undefined, value |-> value, driver |-> "", namespace |-> <<>>]
Forgotten(key) ==
    [name |-> "locker.item.forgotten", key |-> key, oldValue |-> Undefined,
     newValue |-> Undefined, value |-> Undefined, driver |-> "", namespace |-> <<>>]

\* A Crypto Box that is never active: every value is stored as plain text.
UsesCryptoNever(L, encrypted) == FALSE

\* Whether the Crypto Box is active for a call on instance L.
UsesCrypto(L, encrypted) == encrypted /\ host.sjcl /\ L.cryptoKey # Null

\* this._getItem(key, encrypted): the world after the call and the value.
_getItem(w, L, key, encrypted, probeOk) ==
    LET w1 == _checkSupport(w, "", probeOk) IN
    IF w1.sup # Bool(TRUE) THEN [w |-> Throw(w1, "unsupported"), v |-> Undefined]
    ELSE LET S == w1.st[L.driver]
             p == _getPrefix(L, key)
         IN IF ~hasOwnProperty(S, p) THEN [w |-> w1, v |-> Null]
            ELSE LET finalValue == getItem(S, p) IN
                 IF UsesCrypto(L, encrypted) /\ (finalValue.enc \/ finalValue.s # <<>>)
                 THEN IF canDecrypt(L.cryptoKey.s, finalValue)
                      THEN [w |-> w1,
                            v |-> _unserialize(Plain(decrypt(L.cryptoKey.s, finalValue)))]
                      ELSE [w |-> Throw(w1, "decrypt"), v |-> Undefined]
                 ELSE [w |-> w1, v |-> _unserialize(finalValue)]

\* this._exists(key)
_exists(w, L, key, probeOk) ==
    LET w1 == _checkSupport(w, "", probeOk) IN
    IF w1.sup # Bool(TRUE) THEN [w |-> Throw(w1, "unsupported"), v |-> FALSE]
    ELSE [w |-> w1, v |-> hasOwnProperty(w1.st[L.driver], _getPrefix(L, key))]

\* The error _setItem raises for a failed write.
WriteError(name) ==
    IF name \in {"QUOTA_EXCEEDED_ERR", "NS_ERROR_DOM_QUOTA_REACHED", "QuotaExceededError"}
    THEN "quota" ELSE "writefailed"

\* The event _setItem publishes after the write.
ChangeEvent(w, L, key, value, oldVal, finalValue) ==
    IF hasOwnProperty(w.st[L.driver], _getPrefix(L, key))
       /\ ~equals(oldVal, RawString(finalValue))
    THEN Updated(key, oldVal, RawString(finalValue))
    ELSE Added(key, value)

\* this._setItem(key, value, encrypted); werr is the outcome of the write.
_setItem(w, L, key, value, encrypted, probeOk, werr) ==
    LET w1 == _checkSupport(w, "", probeOk) IN
    IF w1.sup # Bool(TRUE) THEN Throw(w1, "unsupported")
    ELSE LET oldVal == _getItem(w1, L, key, FALSE, TRUE).v
             serializedValue == _serialize(value)
             finalValue == IF UsesCrypto(L, encrypted) /\ serializedValue # <<>>
                           THEN encrypt(L.cryptoKey.s, serializedValue)
                           ELSE Plain(serializedValue)
         IN IF werr # "none" THEN Throw(w1, WriteError(werr))
            ELSE LET w2 == [w1 EXCEPT !.st[L.driver] =
                                setItem(@, _getPrefix(L, key), finalValue)]
                 IN _event(w2, L, ChangeEvent(w2, L, key, value, oldVal, finalValue))

\* this._removeItem(key)
_removeItem(w, L, key, probeOk) ==
    LET w1 == _checkSupport(w, "", probeOk) IN
    IF w1.sup # Bool(TRUE) THEN Throw(w1, "unsupported")
    ELSE IF ~hasOwnProperty(w1.st[L.driver], _getPrefix(L, key)) THEN w1
    ELSE _event([w1 EXCEPT !.st[L.driver] = removeItem(@, _getPrefix(L, key))],
                L, Forgotten(key))

\* -------------------------------------------------------------- public API

\* What a method returns besides a stored value: the instance itself.
This == [t |-> "this", n |-> 0, s |-> <<>>, a |-> <<>>]

Return(w, v) == [w |-> w, ret |-> v]

\* Locker.prototype.put(key, value, encrypted) for a string key and a value
\* that is not a function.
put(w, L, key, value, encrypted, probeOk, werr) ==
    IF key = <<>> THEN Return(w, Bool(FALSE))
    ELSE IF ~isDefined(value) THEN Return(w, Bool(FALSE))
    ELSE LET g == _getItem(w, L, key, encrypted, probeOk) IN
         IF g.w.err # "none" THEN Return(g.w, Undefined)
         ELSE Return(_setItem(g.w, L, key, value, encrypted, TRUE, werr), This)

\* Locker.prototype.has(key)
has(w, L, key, probeOk) == _exists(w, L, key, probeOk)

\* Locker.prototype.add(key, value, encrypted): true whenever has(key) was
\* false, whatever put then did.
add(w, L, key, value, encrypted, probeOk, werr) ==
    LET h == has(w, L, key, probeOk) IN
    IF h.w.err # "none" THEN Return(h.w, Undefined)
    ELSE IF h.v THEN Return(h.w, Bool(FALSE))
    ELSE LET r == put(h.w, L, key, value, encrypted, TRUE, werr) IN
         Return(r.w, IF r.w.err = "none" THEN Bool(TRUE) ELSE Undefined)

\* Locker.prototype.get(key, def, encrypted) for a string key; nargs is
\* arguments.length.
get(w, L, key, def, nargs, encrypted, probeOk) ==
    LET h == has(w, L, key, probeOk) IN
    IF h.w.err # "none" THEN Return(h.w, Undefined)
    ELSE IF ~h.v THEN Return(h.w, IF nargs \in {2, 3} THEN def ELSE Undefined)
    ELSE LET g == _getItem(h.w, L, key, encrypted, TRUE) IN Return(g.w, g.v)

RECURSIVE RemoveEach(_, _, _, _)
\* key.map(this._removeItem, this)
RemoveEach(w, L, keys, probeOk) ==
    IF Len(keys) = 0 \/ w.err # "none" THEN w
    ELSE RemoveEach(_removeItem(w, L, keys[1], probeOk), L, Tail(keys), TRUE)

\* Locker.prototype.forget(key): keys is the array passed, or the one key.
forget(w, L, keys, probeOk) == Return(RemoveEach(w, L, keys, probeOk), This)

\* Locker.prototype.pull(key, def, encrypted): get is always called with
\* three arguments.
pull(w, L, key, def, encrypted, probeOk) ==
    LET g == get(w, L, key, def, 3, encrypted, probeOk) IN
    IF g.w.err # "none" THEN Return(g.w, Undefined)
    ELSE LET f == forget(g.w, L, <<key>>, TRUE) IN
         Return(f.w, IF f.w.err = "none" THEN g.ret ELSE Undefined)

\* The key all() looks up for an own key of the driver.
StripNamespace(L, key) ==
    LET split == Split(key, L.separator) IN
    IF Len(split) > 1 /\ split[1] = L.namespace
    THEN Join(Tail(split), L.separator)
    ELSE key

\* Locker.prototype.all(): the items as a set of key/value pairs. An empty
\* driver is never probed.
all(w, L, probeOk) ==
    IF w.st[L.driver] = {} THEN [w |-> w, items |-> {}]
    ELSE LET w1 == _checkSupport(w, "", probeOk) IN
         IF w1.sup # Bool(TRUE) THEN [w |-> Throw(w1, "unsupported"), items |-> {}]
         ELSE LET S == w1.st[L.driver]
                  found == {StripNamespace(L, e.key) : e \in S}
                  kept == {k \in found : hasOwnProperty(S, _getPrefix(L, k))}
              IN [w |-> w1,
                  items |-> {[key |-> k, value |-> _getItem(w1, L, k, FALSE, TRUE).v]
                             : k \in kept}]

\* Object.keys(items), in the order the driver enumerates them.
KeysOf(items) ==
    LET ks == {it.key : it \in items} IN
    CHOOSE q \in [1..Cardinality(ks) -> ks] : \A k \in ks : \E j \in DOMAIN q : q[j] = k

\* Locker.prototype.clean()
clean(w, L, probeOk) ==
    LET a == all(w, L, probeOk) IN
    IF a.w.err # "none" THEN Return(a.w, Undefined)
    ELSE forget(a.w, L, KeysOf(a.items), probeOk)

\* Locker.prototype.empty(): this._driver.clear(), with no support check.
empty(w, L) == Return([w EXCEPT !.st[L.driver] = {}], This)

\* Locker.prototype.supported(driver): driver "" is an omitted argument.
supported(w, driver, probeOk) ==
    LET w1 == _checkSupport(w, driver, probeOk) IN Return(w1, w1.sup)

\* Locker.prototype.count()
count(w, L, probeOk) ==
    LET a == all(w, L, probeOk) IN
    IF a.w.err # "none" THEN Return(a.w, Undefined)
    ELSE Return(a.w, Num(Cardinality({it.key : it \in a.items})))

IsBlank(chars) == \A j \in 1..Len(chars) : chars[j] \in {" ", "\t", "\n"}

\* A setter that stores whatever it is given.
setCryptoKeyAny(L, key) == key

\* Locker.prototype.setCryptoKey(key): the crypto-key slot afterwards.
setCryptoKey(L, key) ==
    IF key.t # "string" \/ Len(key.s) = 0 \/ IsBlank(key.s) THEN L.cryptoKey
    ELSE key

\* new Locker(driver, namespace), created from lockers[parent].
Locker(driver, namespace, parent) ==
    [driver |-> driver, namespace |-> namespace,
     eventsEnabled |-> defaults.eventsEnabled, separator |-> defaults.separator,
     cryptoKey |-> Null, supported |-> Undefined, watchers |-> {}, parent |-> parent]

\* A derived instance that starts with an empty crypto-key slot.
instanceWithoutKey(p, driver, namespace) == Locker(driver, namespace, p)

\* Locker.prototype.instance(driver, namespace) called on lockers[p]
instance(p, driver, namespace) ==
    LET locker == Locker(driver, namespace, p) IN
    [locker EXCEPT !.cryptoKey = setCryptoKey(locker, lockers[p].cryptoKey)]

\* ------------------------------------------------------------------ binding

\* angular.isObject
isObject(v) == v.t \in {"array", "object"}

\* var index = attr || key
Index(key, attr) == IF attr = <<>> THEN key ELSE attr

\* var watcherId = (index + $scope.$id)
WatcherId(index, id) == index \o Digits(id)

\* What a subscription has seen before its listener ran for the first time.
initWatchVal == [t |-> "initWatchVal", n |-> 0, s |-> <<>>, a |-> <<>>]

\* $scope.$watch(index, listener, deep) of bind: the subscription the host
\* keeps for scope s, with what its listener closes over (the instance i, the
\* key, whether it encrypts). live turns FALSE when the function $watch
\* returned is called, and calls counts those calls. unbound is history: an unbind of the same instance,
\* scope, key and index has returned since the subscription was made.
Watch(s, index, i, key, encrypted, deep) ==
    [scope |-> s, index |-> index, locker |-> i, key |-> key, encrypted |-> encrypted,
     deep |-> deep, seen |-> initWatchVal, live |-> TRUE, unbound |-> FALSE,
     calls |-> 0]

\* this._watchers[watcherId] = handle
setWatcher(W, id, handle) == {x \in W : x.id # id} \cup {[id |-> id, handle |-> handle]}

\* A seeding that ignores the default handed to bind.
seedWithoutDefault(w, L, sc, key, def, attr, probeOk) ==
    LET index == Index(key, attr) IN
    IF isDefined(sc[index]) THEN [w |-> w, sc |-> sc]
    ELSE LET r == get(w, L, key, Undefined, 1, FALSE, probeOk) IN
         [w |-> r.w, sc |-> IF r.w.err = "none" THEN [sc EXCEPT ![index] = r.ret] ELSE sc]

\* The second half of bind: if ($scope.$eval(index) is undefined) assign
\* this.get(key, def) to it. sc is the properties of the scope.
seed(w, L, sc, key, def, attr, probeOk) ==
    LET index == Index(key, attr) IN
    IF isDefined(sc[index]) THEN [w |-> w, sc |-> sc]
    ELSE LET r == get(w, L, key, def, 2, FALSE, probeOk) IN
         [w |-> r.w, sc |-> IF r.w.err = "none" THEN [sc EXCEPT ![index] = r.ret] ELSE sc]

\* The same in bindEncrypted: this.get(key, def, true).
seedEncrypted(w, L, sc, key, def, attr, probeOk) ==
    LET index == Index(key, attr) IN
    IF isDefined(sc[index]) THEN [w |-> w, sc |-> sc]
    ELSE LET r == get(w, L, key, def, 3, TRUE, probeOk) IN
         [w |-> r.w, sc |-> IF r.w.err = "none" THEN [sc EXCEPT ![index] = r.ret] ELSE sc]

\* The handles this._watchers holds under the id (none or one).
Tracked(W, id) == {x.handle : x \in {y \in W : y.id = id}}

\* this._watchers[id]() for every id whose handle is in handles: the
\* subscriptions stop being live.
dispose(ws, handles) ==
    [h \in DOMAIN ws |->
        IF h \in handles THEN [ws[h] EXCEPT !.live = FALSE, !.calls = @ + 1] ELSE ws[h]]

\* The calls of disposers are counted up to MaxCalls.
CanDispose(ws, handles) == \A h \in handles : ws[h].calls < MaxCalls

\* The listener bind hands to $watch, called with newVal.
listener(w, L, key, newVal, encrypted, probeOk, werr) ==
    IF isDefined(newVal) THEN put(w, L, key, newVal, encrypted, probeOk, werr).w ELSE w

\* ------------------------------------------------------------------ actions

\* The record of the last operation: op called on lockers[inst] with key, val
\* and encrypted flag enc, and how it ended ("none": it returned). A call
\* that reads only, is rejected or raises keeps no argument it did not use.
Op(op, inst, key, val, enc, status) ==
    [op |-> op, inst |-> inst, key |-> key, val |-> val, enc |-> enc, status |-> status,
     ret |-> Undefined]

\* The same for a call whose return value is recorded.
OpRet(op, inst, key, val, enc, status, ret) ==
    [Op(op, inst, key, val, enc, status) EXCEPT !.ret = ret]

\* Whether the probe's write succeeds is the environment's choice, made when
\* an instance that has not probed yet is used on a page whose Storage may be
\* unavailable.
ProbeChoices(i) ==
    IF lockers[i].supported = Undefined /\ host.storage = "may fail" THEN BOOLEAN ELSE {TRUE}

\* What a call on lockers[i] that ends in world w leaves in the storages, in
\* the instance and on $rootScope.
CommitCall(i, w) ==
    /\ TotalEntries(w.st) <= MaxEntries
    /\ storage' = w.st
    /\ lockers' = [lockers EXCEPT ![i].supported = w.sup]
    /\ events' = w.ev
    /\ UNCHANGED <<host, defaults>>

\* The same for a call that touches no scope.
Commit(i, w) == CommitCall(i, w) /\ UNCHANGED <<scopes, watches>>

\* The state when $get has built the default instance, for the provider
\* defaults and the host given, on a page whose scopes have the $ids and the
\* properties given.
InitScopes(namespaces, enabled, hosts, ids, props) ==
    /\ host \in hosts
    /\ defaults \in [driver : {"local"}, namespace : namespaces,
                     eventsEnabled : enabled, separator : {separator}]
    /\ storage = [d \in Drivers |-> {}]
    /\ lockers = <<Locker(defaults.driver, defaults.namespace, 0)>>
    /\ events = <<>>
    /\ last = Op("$get", 0, <<>>, Undefined, FALSE, "none")
    /\ scopes = [s \in ids |-> [p \in props |-> Undefined]]
    /\ watches = <<>>

\* The same on a page with the one scope ScopeIds names.
InitWith(namespaces, enabled, hosts) ==
    InitScopes(namespaces, enabled, hosts, ScopeIds, Props)

\* Other code of the page writes a string to a Storage object directly.
RawSetItemOn(drivers, keys, raws) ==
    \E d \in drivers, p \in keys, raw \in raws :
        /\ storage' = [storage EXCEPT ![d] = setItem(@, p, raw)]
        /\ TotalEntries(storage') <= MaxEntries
        /\ events' = <<>>
        /\ last' = Op("setItem", 0, p, RawString(raw), FALSE, "none")
        /\ UNCHANGED <<lockers, host, defaults, scopes, watches>>

\* Locker.prototype.put(key, value, encrypted). When the backend's write
\* raised, ret is the name of the backend's error.
PutOn(keys, values, flags, errs) ==
    \E i \in DOMAIN lockers, key \in keys, value \in values, encrypted \in flags :
      \E probeOk \in ProbeChoices(i),
         werr \in IF key = <<>> \/ ~isDefined(value) THEN {"none"} ELSE errs :
        \E r \in {put(World(i), lockers[i], key, value, encrypted, probeOk, werr)} :
        /\ Commit(i, r.w)
        /\ last' = IF r.w.err = "none" /\ r.ret = This
                   THEN Op("put", i, key, value, encrypted, "none")
                   ELSE IF r.w.err = "none"
                   THEN Op("put", i, <<>>, Undefined, FALSE, "false")
                   ELSE OpRet("put", i, key, Undefined, encrypted, r.w.err,
                              IF r.w.err \in {"quota", "writefailed"}
                              THEN Str(<<werr>>) ELSE Undefined)

GetOn(keys, defs, flags) ==
    \E i \in DOMAIN lockers, key \in keys, nargs \in 1..3 :
      \E def \in IF nargs = 1 THEN {Undefined} ELSE defs,
         encrypted \in IF nargs = 3 THEN flags ELSE {FALSE},
         probeOk \in ProbeChoices(i) :
        \E r \in {get(World(i), lockers[i], key, def, nargs, encrypted, probeOk)} :
        /\ Commit(i, r.w)
        /\ last' = Op("get", i, <<>>, Undefined, FALSE, r.w.err)

HasOn(keys) ==
    \E i \in DOMAIN lockers, key \in keys : \E probeOk \in ProbeChoices(i) :
        \E r \in {has(World(i), lockers[i], key, probeOk)} :
        /\ Commit(i, r.w)
        /\ last' = Op("has", i, <<>>, Undefined, FALSE, r.w.err)

ForgetOn(keys) ==
    \E i \in DOMAIN lockers, key \in keys : \E probeOk \in ProbeChoices(i) :
        \E r \in {forget(World(i), lockers[i], <<key>>, probeOk)} :
        /\ Commit(i, r.w)
        /\ last' = Op("forget", i, key, Undefined, FALSE, r.w.err)

All ==
    \E i \in DOMAIN lockers : \E probeOk \in ProbeChoices(i) :
        \E r \in {all(World(i), lockers[i], probeOk)} :
        /\ Commit(i, r.w)
        /\ last' = Op("all", i, <<>>, Undefined, FALSE, r.w.err)

Clean ==
    \E i \in DOMAIN lockers : \E probeOk \in ProbeChoices(i) :
        \E r \in {clean(World(i), lockers[i], probeOk)} :
        /\ Commit(i, r.w)
        /\ last' = Op("clean", i, <<>>, Undefined, FALSE, r.w.err)

Count ==
    \E i \in DOMAIN lockers : \E probeOk \in ProbeChoices(i) :
        \E r \in {count(World(i), lockers[i], probeOk)} :
        /\ Commit(i, r.w)
        /\ last' = Op("count", i, <<>>, Undefined, FALSE, r.w.err)

\* Locker.prototype.add(key, value, encrypted); the outcome says what it
\* returned ("true", "false") or raised.
AddOn(keys, values, flags, errs) ==
    \E i \in DOMAIN lockers, key \in keys, value \in values, encrypted \in flags :
      \E probeOk \in ProbeChoices(i),
         werr \in IF key = <<>> \/ ~isDefined(value) THEN {"none"} ELSE errs :
        \E r \in {add(World(i), lockers[i], key, value, encrypted, probeOk, werr)} :
        /\ Commit(i, r.w)
        /\ last' = OpRet("add", i, key, value, encrypted, r.w.err, r.ret)

\* Locker.prototype.pull(key, def): val is the default handed in.
PullOn(keys, defs) ==
    \E i \in DOMAIN lockers, key \in keys, def \in defs :
      \E probeOk \in ProbeChoices(i) :
        \E r \in {pull(World(i), lockers[i], key, def, FALSE, probeOk)} :
        /\ Commit(i, r.w)
        /\ last' = OpRet("pull", i, key, def, FALSE, r.w.err, r.ret)

\* Locker.prototype.forget(keys) for an array of keys: val is the array.
ForgetEachOn(keyLists) ==
    \E i \in DOMAIN lockers, keys \in keyLists : \E probeOk \in ProbeChoices(i) :
        \E r \in {forget(World(i), lockers[i], keys, probeOk)} :
        /\ Commit(i, r.w)
        /\ last' = Op("forget", i, <<>>, Arr([j \in DOMAIN keys |-> Str(keys[j])]),
                      FALSE, r.w.err)

\* Locker.prototype.empty()
Empty ==
    \E i \in DOMAIN lockers :
        \E r \in {empty(World(i), lockers[i])} :
        /\ Commit(i, r.w)
        /\ last' = Op("empty", i, <<>>, Undefined, FALSE, r.w.err)

\* Locker.prototype.supported(driver): key is the driver id handed in.
SupportedOn(drivers) ==
    \E i \in DOMAIN lockers, driver \in drivers : \E probeOk \in ProbeChoices(i) :
        \E r \in {supported(World(i), driver, probeOk)} :
        LET d == IF driver = "" THEN <<>> ELSE <<driver>>
        IN /\ Commit(i, r.w)
           /\ last' = OpRet("supported", i, d, Undefined, FALSE, r.w.err, r.ret)

\* Locker.prototype.bind($scope, key, def, attr): attr "" is an omitted attr.
BindOn(keys, defs, attrs) ==
    \E i \in DOMAIN lockers, s \in DOMAIN scopes, key \in keys, def \in defs, attr \in attrs :
      \E probeOk \in ProbeChoices(i) :
        \E r \in {seed(World(i), lockers[i], scopes[s], key, def, attr, probeOk)} :
        LET index == Index(key, attr)
        IN /\ Len(watches) < MaxWatches
           /\ watches' = Append(watches, Watch(s, index, i, key, FALSE,
                                               isObject(scopes[s][index])))
           /\ storage' = r.w.st
           /\ lockers' = [lockers EXCEPT
                             ![i].supported = r.w.sup,
                             ![i].watchers = setWatcher(@, WatcherId(index, s),
                                                        Len(watches) + 1)]
           /\ scopes' = [scopes EXCEPT ![s] = r.sc]
           /\ events' = r.w.ev
           /\ last' = Op("bind", i, key, def, FALSE, r.w.err)
           /\ UNCHANGED <<host, defaults>>

\* Locker.prototype.bindEncrypted($scope, key, def, attr)
BindEncryptedOn(keys, defs, attrs) ==
    \E i \in DOMAIN lockers, s \in DOMAIN scopes, key \in keys, def \in defs, attr \in attrs :
      \E probeOk \in ProbeChoices(i) :
        \E r \in {seedEncrypted(World(i), lockers[i], scopes[s], key, def, attr, probeOk)} :
        LET index == Index(key, attr)
        IN /\ Len(watches) < MaxWatches
           /\ watches' = Append(watches, Watch(s, index, i, key, TRUE,
                                               isObject(scopes[s][index])))
           /\ storage' = r.w.st
           /\ lockers' = [lockers EXCEPT
                             ![i].supported = r.w.sup,
                             ![i].watchers = setWatcher(@, WatcherId(index, s),
                                                        Len(watches) + 1)]
           /\ scopes' = [scopes EXCEPT ![s] = r.sc]
           /\ events' = r.w.ev
           /\ last' = Op("bindEncrypted", i, key, def, TRUE, r.w.err)
           /\ UNCHANGED <<host, defaults>>

\* Locker.prototype.unbind($scope, key, attr, dontForget): the property is
\* set to null, the key forgotten unless dontForget, and the subscription
\* tracked under the watcher id disposed and dropped. val is dontForget.
UnbindOn(keys, attrs, flags) ==
    \E i \in DOMAIN lockers, s \in DOMAIN scopes, key \in keys, attr \in attrs,
       dontForget \in flags :
      \E probeOk \in ProbeChoices(i) :
        \E w \in {IF dontForget THEN World(i)
                  ELSE forget(World(i), lockers[i], <<key>>, probeOk).w} :
        LET index == Index(key, attr)
            id == WatcherId(index, s)
            disposed == dispose(watches, Tracked(lockers[i].watchers, id))
        IN /\ CanDispose(watches, Tracked(lockers[i].watchers, id))
           /\ scopes' = [scopes EXCEPT ![s][index] = Null]
           /\ storage' = w.st
           /\ events' = w.ev
           /\ IF w.err = "none"
              THEN /\ lockers' = [lockers EXCEPT
                                     ![i].supported = w.sup,
                                     ![i].watchers = {x \in @ : x.id # id}]
                   /\ watches' = [h \in DOMAIN watches |->
                         IF /\ watches[h].locker = i /\ watches[h].scope = s
                            /\ watches[h].key = key /\ watches[h].index = index
                         THEN [disposed[h] EXCEPT !.unbound = TRUE]
                         ELSE disposed[h]]
              ELSE /\ lockers' = [lockers EXCEPT ![i].supported = w.sup]
                   /\ watches' = watches
           /\ last' = Op("unbind", i, key, Bool(dontForget), FALSE, w.err)
           /\ UNCHANGED <<host, defaults>>

\* Locker.prototype.clearWatchers(): every tracked disposer is called, the
\* registry keeps its entries.
ClearWatchers ==
    \E i \in DOMAIN lockers :
        /\ CanDispose(watches, {x.handle : x \in lockers[i].watchers})
        /\ watches' = dispose(watches, {x.handle : x \in lockers[i].watchers})
        /\ events' = <<>>
        /\ last' = Op("clearWatchers", i, <<>>, Undefined, FALSE, "none")
        /\ UNCHANGED <<storage, lockers, host, defaults, scopes>>

\* Other code of the page sets a property of a scope.
AssignOn(values) ==
    \E s \in DOMAIN scopes, p \in Props, v \in values :
        /\ scopes' = [scopes EXCEPT ![s][p] = v]
        /\ events' = <<>>
        /\ last' = Op("assign", 0, p, v, FALSE, "none")
        /\ UNCHANGED <<storage, lockers, host, defaults, watches>>

\* A digest delivers a change notification: the listener of a live
\* subscription runs with the current value of its property, which differs
\* from the value it saw last (the first run always happens).
Notify ==
    \E h \in DOMAIN watches : \E probeOk \in ProbeChoices(watches[h].locker) :
        \E w \in {listener(World(watches[h].locker), lockers[watches[h].locker],
                           watches[h].key, scopes[watches[h].scope][watches[h].index],
                           watches[h].encrypted, probeOk, "none")} :
        LET wt == watches[h]
            newVal == scopes[wt.scope][wt.index]
        IN /\ wt.live
           /\ newVal # wt.seen
           /\ CommitCall(wt.locker, w)
           /\ watches' = [watches EXCEPT ![h].seen = newVal]
           /\ last' = Op("notify", wt.locker, wt.key, newVal, wt.encrypted, w.err)
           /\ UNCHANGED scopes

SetCryptoKeyOn(keys) ==
    \E i \in DOMAIN lockers, key \in keys :
        /\ lockers' = [lockers EXCEPT ![i].cryptoKey = setCryptoKey(lockers[i], key)]
        /\ events' = <<>>
        /\ last' = Op("setCryptoKey", i, <<>>, key, FALSE, "none")
        /\ UNCHANGED <<storage, host, defaults, scopes, watches>>

\* A call of instance(), driver() or namespace() on lockers[p] with the
\* driver id and namespace it hands to instance(); an unregistered driver id
\* makes the constructor raise.
Derive(op, p, driver, namespace) ==
    /\ Len(lockers) < MaxInstances
    /\ events' = <<>>
    /\ UNCHANGED <<storage, host, defaults, scopes, watches>>
    /\ IF driver \in Drivers
       THEN /\ lockers' = Append(lockers, instance(p, driver, namespace))
            /\ last' = Op(op, p, <<>>, Undefined, FALSE, "none")
       ELSE /\ lockers' = lockers
            /\ last' = Op(op, p, <<>>, Undefined, FALSE, "drivernotfound")

InstanceOn(drivers, namespaces) ==
    \E p \in DOMAIN lockers, driver \in drivers, namespace \in namespaces :
        Derive("instance", p, driver, namespace)

\* Locker.prototype.driver(driver)
DriverOn(drivers) ==
    \E p \in DOMAIN lockers, driver \in drivers :
        Derive("driver", p, driver, lockers[p].namespace)

\* Locker.prototype.namespace(namespace)
NamespaceOn(namespaces) ==
    \E p \in DOMAIN lockers, namespace \in namespaces :
        Derive("namespace", p, lockers[p].driver, namespace)

\* ------------------------------------------------- the storage specification

\* Plain (unencrypted) writes and removals through the default instance and
\* the instances namespace() derives from it on the same driver, while other
\* code writes raw strings. Reads are the operators get, has, all and count
\* applied to the state.
RawKeys == {<<"c">>, <<"a", ".", "c">>}
RawValues == {Plain(<<"y">>)}
RawDrivers == {"local"}
\* put's inputs: also the empty key and an omitted value, which it rejects.
PutKeys == {<<>>, <<"c">>, <<"b", ".", "c">>, <<"l">>}
PutValues == {Undefined, Num(1), Str(<<"1">>), Arr(<<Num(1)>>)}
NoWriteErrors == {"none"}
Unencrypted == {FALSE}
DefaultNamespaces == {<<>>, <<"a">>}
DerivedNamespaces == {<<"b">>, <<"a", ".", "b">>}
EventsOn == {TRUE}
PlainHosts == {[sjcl |-> FALSE, storage |-> "works"]}

Init == InitWith(DefaultNamespaces, EventsOn, PlainHosts)

RawSetItem == RawSetItemOn(RawDrivers, RawKeys, RawValues)
Put == PutOn(PutKeys, PutValues, Unencrypted, NoWriteErrors)
Forget == ForgetOn(Keys)
Namespace == NamespaceOn(DerivedNamespaces)

Next ==
    \/ RawSetItem
    \/ Put
    \/ Forget
    \/ Clean
    \/ Namespace

Spec == Init /\ [][Next]_vars

\* ------------------------------------------------- the crypto specification

\* Encrypted and plain writes and reads of one key through the default
\* instance and the instances instance(), driver() and namespace() derive
\* from it, with crypto keys set on either, on a page with or without sjcl.
CryptoNamespaces == {<<"a">>}
CryptoHosts == {[sjcl |-> TRUE, storage |-> "works"], [sjcl |-> FALSE, storage |-> "works"]}
CryptoKeyArgs == {Str(<<"p">>), Str(<<"q">>), Str(<<" ">>), Null}
CryptoPutKeys == {<<"c">>}
CryptoPutValues == {Num(1), Str(<<"1">>)}
CryptoDefaults == {Str(<<"d">>)}
InstanceDrivers == {"session", "cookie"}
InstanceNamespaces == {<<"a">>}
DriverArgs == {"local", "session"}
NamespaceArgs == {<<"b">>}

InitCrypto == InitWith(CryptoNamespaces, EventsOn, CryptoHosts)

SetCryptoKey == SetCryptoKeyOn(CryptoKeyArgs)
Instance == InstanceOn(InstanceDrivers, InstanceNamespaces)
Driver == DriverOn(DriverArgs)
NamespaceOfKey == NamespaceOn(NamespaceArgs)
PutEncrypted == PutOn(CryptoPutKeys, CryptoPutValues, BOOLEAN, NoWriteErrors)
GetEncrypted == GetOn(CryptoPutKeys, CryptoDefaults, BOOLEAN)

NextCrypto ==
    \/ SetCryptoKey
    \/ Instance
    \/ Driver
    \/ NamespaceOfKey
    \/ PutEncrypted
    \/ GetEncrypted

SpecCrypto == InitCrypto /\ [][NextCrypto]_vars

\* ------------------------------------------------ the binding specification

\* Keys of the default instance bound to properties of a scope, with and
\* without a default and an attr, while other code sets the properties and
\* the digest delivers the change notifications; the key may hold a value
\* before it is bound.
BindNamespaces == {<<"a">>}
BindKeys == {<<"c">>}
BindDefaults == {Undefined, Str(<<"d">>)}
BindAttrs == {<<>>, <<"d">>}
BindStored == {Num(1)}
AssignValues == {Undefined, Num(1), Arr(<<Num(1)>>)}

InitBind == InitWith(BindNamespaces, EventsOn, PlainHosts)

PutStored == PutOn(BindKeys, BindStored, Unencrypted, NoWriteErrors)
Bind == BindOn(BindKeys, BindDefaults, BindAttrs)
Assign == AssignOn(AssignValues)

NextBind ==
    \/ PutStored
    \/ Bind
    \/ Assign
    \/ Notify

SpecBind == InitBind /\ [][NextBind]_vars

\* ------------------------------------------------ the watcher specification

\* Keys of the default instance bound, plainly and encrypted, to properties
\* of a scope, unbound again with and without keeping the stored entry, and
\* the watchers cleared, while other code sets the properties and the digest
\* delivers the change notifications.
WatchDefaults == {Undefined}
WatchAttrs == {<<>>}
WatchValues == {Undefined, Num(1)}

InitWatch == InitWith(BindNamespaces, EventsOn, PlainHosts)

BindPlain == BindOn(BindKeys, WatchDefaults, WatchAttrs)
BindEncrypted == BindEncryptedOn(BindKeys, WatchDefaults, WatchAttrs)
Unbind == UnbindOn(BindKeys, WatchAttrs, BOOLEAN)
AssignProp == AssignOn(WatchValues)

NextWatch ==
    \/ BindPlain
    \/ BindEncrypted
    \/ Unbind
    \/ ClearWatchers
    \/ AssignProp
    \/ Notify

SpecWatch == InitWatch /\ [][NextWatch]_vars

\* -------------------------------------------------- the probe specification

\* Every core operation and supported(driver), for registered and
\* unregistered driver ids, on the default instance with the empty
\* namespace, on a page whose Storage works and on one whose Storage may
\* refuse the probe's write; other code writes raw strings, also under the
\* probe key.
ProbeNamespaces == {<<>>}
ProbeHosts == {[sjcl |-> FALSE, storage |-> "works"], [sjcl |-> FALSE, storage |-> "may fail"]}
ProbeDrivers == {"", "local", "session", "cookie"}
ProbeRawKeys == {<<"l">>, <<"c">>}
ProbeKeys == {<<"c">>}
ProbeValues == {Num(1)}
ProbeDefaults == {Str(<<"d">>)}

InitProbe == InitWith(ProbeNamespaces, EventsOn, ProbeHosts)

Supported == SupportedOn(ProbeDrivers)
RawSetItemProbe == RawSetItemOn(RawDrivers, ProbeRawKeys, RawValues)
PutProbe == PutOn(ProbeKeys, ProbeValues, Unencrypted, NoWriteErrors)
AddProbe == AddOn(ProbeKeys, ProbeValues, Unencrypted, NoWriteErrors)
GetProbe == GetOn(ProbeKeys, ProbeDefaults, Unencrypted)
HasProbe == HasOn(ProbeKeys)
ForgetProbe == ForgetOn(ProbeKeys)
PullProbe == PullOn(ProbeKeys, ProbeDefaults)

NextProbe ==
    \/ Supported
    \/ RawSetItemProbe
    \/ PutProbe
    \/ AddProbe
    \/ GetProbe
    \/ HasProbe
    \/ ForgetProbe
    \/ PullProbe
    \/ All
    \/ Clean
    \/ Empty
    \/ Count

SpecProbe == InitProbe /\ [][NextProbe]_vars

\* --------------------------------------------------- the edit specification

\* add, pull, forget (one key and arrays of keys), clean and put whose write
\* the backend may refuse, through the default instance (local, namespace
\* 'a') and an instance derived for the other driver; other code writes raw
\* strings under keys inside and outside the namespace, the probe key among
\* them.
EditNamespaces == {<<"a">>}
EditDrivers == {"session"}
EditRawDrivers == {"local", "session"}
EditRawKeys == {<<"l">>, <<"a", ".", "c">>, <<"b", ".", "c">>}
EditKeys == {<<"c">>, <<"d">>}
EditKeyLists == {<<<<"c">>, <<"d">>>>, <<<<"c">>, <<"c">>>>}
EditValues == {Num(1)}
AddValues == {Undefined, Num(1)}
PullDefaults == {Str(<<"d">>)}
WriteErrors == {"none", "QUOTA_EXCEEDED_ERR", "NS_ERROR_DOM_QUOTA_REACHED",
                "QuotaExceededError", "SecurityError"}

InitEdit == InitWith(EditNamespaces, EventsOn, PlainHosts)

RawSetItemEdit == RawSetItemOn(EditRawDrivers, EditRawKeys, RawValues)
PutFailing == PutOn(EditKeys, EditValues, Unencrypted, WriteErrors)
Add == AddOn(EditKeys, AddValues, Unencrypted, NoWriteErrors)
Pull == PullOn(EditKeys, PullDefaults)
ForgetOne == ForgetOn(EditKeys)
ForgetEach == ForgetEachOn(EditKeyLists)
DriverOther == DriverOn(EditDrivers)

NextEdit ==
    \/ RawSetItemEdit
    \/ PutFailing
    \/ Add
    \/ Pull
    \/ ForgetOne
    \/ ForgetEach
    \/ Clean
    \/ DriverOther

SpecEdit == InitEdit /\ [][NextEdit]_vars

\* ---------------------------------------------------- the key specification

\* setCryptoKey with strings, blank strings and values that are no strings,
\* on the default instance and on the instances derived from it.
KeyArgs == {Str(<<"p">>), Str(<<" ", "q">>), Str(<<>>), Str(<<" ">>), Str(<<" ", "\t", "\n">>),
            Num(1), Null, Undefined, Bool(TRUE), Arr(<<Str(<<"p">>)>>)}

InitKeys == InitWith(CryptoNamespaces, EventsOn, PlainHosts)

SetAnyCryptoKey == SetCryptoKeyOn(KeyArgs)

NextKeys ==
    \/ SetAnyCryptoKey
    \/ Instance
    \/ Driver
    \/ NamespaceOfKey

SpecKeys == InitKeys /\ [][NextKeys]_vars

\* -------------------------------------------------- the watcher-id specification

\* Two keys bound to the properties of the same name on two scopes whose
\* $ids are 2 and 12, unbound again, and the watchers cleared.
IdScopes == {2, 12}
IdProps == {<<"c">>, <<"c", "1">>}
IdKeys == {<<"c">>, <<"c", "1">>}
KeepStored == {TRUE}

InitIds == InitScopes(BindNamespaces, EventsOn, PlainHosts, IdScopes, IdProps)

BindKey == BindOn(IdKeys, WatchDefaults, WatchAttrs)
UnbindKey == UnbindOn(IdKeys, WatchAttrs, KeepStored)

NextIds ==
    \/ BindKey
    \/ UnbindKey
    \/ ClearWatchers

SpecIds == InitIds /\ [][NextIds]_vars

\* ------------------------------------------------------------- observations

\* What get(key), has(key), all() and count() return when called on instance
\* L with the storages st, on a page whose Storage is writable.
GetOf(st, L, key) == get(WorldOf(st, L), L, key, Undefined, 1, FALSE, TRUE).ret
HasOf(st, L, key) == has(WorldOf(st, L), L, key, TRUE).v
AllOf(st, L)      == all(WorldOf(st, L), L, TRUE).items
CountOf(st, L)    == count(WorldOf(st, L), L, TRUE).ret

\* The step is a call of op that returned normally.
Returned(op) == last'.op = op /\ last'.status = "none"

\* ------------------------------------------------------ C1: put/get round trip

\* C1: in every state reached by a put(k, v) that returned (k a non-empty key,
\* v a defined JSON value, no encryption), get(k) on the same instance
\* returns a value equal to v, whatever the key held before.
PutGetRoundTrip ==
    (last.op = "put" /\ last.status = "none" /\ ~last.enc)
        => equals(GetOf(storage, lockers[last.inst], last.key), last.val)

\* A put of an array over a raw, non-JSON string that other code had stored
\* under the same physical key, read back as the array.
PutGetRoundTripWitness ==
    /\ last.op = "put" /\ last.status = "none"
    /\ last.val = Arr(<<Num(1)>>)
    /\ Len(events) = 1 /\ events[1].oldValue = Str(<<"y">>)
    /\ GetOf(storage, lockers[last.inst], last.key) = Arr(<<Num(1)>>)

\* ------------------------------------------------------ C2..C4: change events

\* C2: a put(k, v) that returns on an instance with events enabled, called
\* while has(k) is false, publishes exactly one 'added' event for k and no
\* 'updated' event.
FirstWriteEmitsAdded ==
    [][(/\ Returned("put")
        /\ lockers[last'.inst].eventsEnabled
        /\ ~HasOf(storage, lockers[last'.inst], last'.key))
       => (/\ Len(events') = 1
           /\ events'[1].name = "locker.item.added"
           /\ events'[1].key = last'.key)]_vars

\* C3: a put(k, v') that directly follows a put(k, v) on the same instance
\* with v' equal to v publishes no event.
EqualRewriteEmitsNothing ==
    [][(/\ last.op = "put" /\ last.status = "none"
        /\ Returned("put")
        /\ last'.inst = last.inst /\ last'.key = last.key
        /\ equals(last'.val, last.val))
       => events' = <<>>]_vars

\* C4: a put(k, v2) that returns on an instance with events enabled, called
\* while k holds a value v1 not equal to v2, publishes exactly one 'updated'
\* event for k and no 'added' event.
DifferingWriteEmitsUpdated ==
    [][(/\ Returned("put")
        /\ lockers[last'.inst].eventsEnabled
        /\ HasOf(storage, lockers[last'.inst], last'.key)
        /\ ~equals(GetOf(storage, lockers[last'.inst], last'.key), last'.val))
       => (/\ Len(events') = 1
           /\ events'[1].name = "locker.item.updated"
           /\ events'[1].key = last'.key)]_vars

\* ------------------------------------------------------ C5: all() and count()

\* The logical keys of namespace L.namespace among the own keys of S: those k
\* whose physical key, namespace + separator + k (k when the namespace is
\* empty), is an own key.
LogicalKeysIn(S, L) ==
    LET p == IF L.namespace = <<>> THEN <<>> ELSE L.namespace \o L.separator IN
    {SubSeq(e.key, Len(p) + 1, Len(e.key)) :
        e \in {x \in S : Len(x.key) > Len(p) /\ SubSeq(x.key, 1, Len(p)) = p}}

\* C5: for every instance, all() is exactly the mapping of the logical keys
\* of its namespace to their decoded values, and count() is its size.
AllIsNamespaceMapping ==
    \A i \in DOMAIN lockers :
        LET L == lockers[i]
            S == storage[L.driver]
        IN /\ AllOf(storage, L) =
                {[key |-> k, value |-> _unserialize(getItem(S, _getPrefix(L, k)))]
                    : k \in LogicalKeysIn(S, L)}
           /\ CountOf(storage, L) = Num(Cardinality(LogicalKeysIn(S, L)))

\* ------------------------------------------------------ C6: namespace isolation

\* Instances j and i share a backend and have distinct namespaces.
DistinctNamespaces(i, j) ==
    /\ i # j
    /\ lockers[i].driver = lockers[j].driver
    /\ lockers[i].namespace # lockers[j].namespace

\* What instance j can see of the keys: has(k) and get(k) for every k.
ViewOf(st, L) == [k \in Keys |-> <<HasOf(st, L, k), GetOf(st, L, k)>>]

\* C6 as stated: a put or forget through one instance leaves has(k) and
\* get(k) of every instance with another namespace on the same backend
\* unchanged.
NamespacesNeverCollide ==
    [][\A j \in DOMAIN lockers :
         (last'.op \in {"put", "forget"} /\ DistinctNamespaces(last'.inst, j))
         => ViewOf(storage', lockers'[j]) = ViewOf(storage, lockers[j])]_vars

\* A namespace that is not empty and does not contain the separator.
SeparatorFree(ns) == ns # <<>> /\ IndexOfFrom(ns, separator, 1) = 0

\* C6, amended: a put or forget through one instance leaves has(k) and get(k)
\* of every instance with another namespace on the same backend unchanged,
\* when both namespaces are non-empty and free of the separator.
SeparatorFreeNamespacesNeverCollide ==
    [][\A j \in DOMAIN lockers :
         (/\ last'.op \in {"put", "forget"}
          /\ DistinctNamespaces(last'.inst, j)
          /\ SeparatorFree(lockers[last'.inst].namespace)
          /\ SeparatorFree(lockers[j].namespace))
         => ViewOf(storage', lockers'[j]) = ViewOf(storage, lockers[j])]_vars

\* Two instances of separator-free namespaces hold the same logical key, the
\* second one written last.
SeparatorFreeNamespacesWitness ==
    /\ last.op = "put" /\ last.status = "none"
    /\ \E j \in DOMAIN lockers :
        /\ DistinctNamespaces(last.inst, j)
        /\ SeparatorFree(lockers[last.inst].namespace)
        /\ SeparatorFree(lockers[j].namespace)
        /\ HasOf(storage, lockers[j], last.key)
        /\ GetOf(storage, lockers[j], last.key) # last.val

\* ------------------------------------------------------ C7: clean()

\* C7: after a clean() that returned, has(k) is false for every key k the
\* instance had before the call, and count() is 0.
CleanEmptiesNamespace ==
    [][Returned("clean")
       => LET i == last'.inst IN
          /\ \A k \in Keys : HasOf(storage, lockers[i], k)
                              => ~HasOf(storage', lockers'[i], k)
          /\ CountOf(storage', lockers'[i]) = Num(0)]_vars

\* ------------------------------------------------------ C8: encrypted round trip

\* C8: in every state reached by a put(k, v, true) that returned on an
\* instance with a crypto key, on a page with sjcl, get(k, undefined, true)
\* returns v and the string stored at the physical key of k is not the
\* serialized plaintext of v.
EncryptedRoundTrip ==
    (/\ last.op = "put" /\ last.status = "none" /\ last.enc
     /\ host.sjcl /\ lockers[last.inst].cryptoKey # Null)
    => LET L == lockers[last.inst]
           r == get(WorldOf(storage, L), L, last.key, Undefined, 3, TRUE, TRUE)
           raw == getItem(storage[L.driver], _getPrefix(L, last.key))
       IN /\ r.w.err = "none"
          /\ equals(r.ret, last.val)
          /\ RawString(raw) # Str(_serialize(last.val))

\* An encrypted put of the string "1" over a value the same key had encrypted
\* before, stored as a ciphertext of the instance's key.
EncryptedRoundTripWitness ==
    /\ last.op = "put" /\ last.status = "none" /\ last.enc
    /\ host.sjcl /\ lockers[last.inst].cryptoKey = Str(<<"q">>)
    /\ last.val = Str(<<"1">>)
    /\ Len(events) = 1 /\ events[1].oldValue.t = "object"
    /\ LET L == lockers[last.inst] IN
       /\ getItem(storage[L.driver], _getPrefix(L, last.key)) = Cipher(<<"q">>, _serialize(last.val))
       /\ get(WorldOf(storage, L), L, last.key, Undefined, 3, TRUE, TRUE).ret = last.val

\* ------------------------------------------------------ C9: crypto key of a derived instance

\* C9: instance(), driver() and namespace() give the new instance the crypto
\* key the parent has at that moment (null when it has none) and leave every
\* existing slot alone; a setCryptoKey on one instance changes the slot of no
\* other instance, parent or child.
CryptoKeyCopiedNotLinked ==
    [][/\ (last'.op \in {"instance", "driver", "namespace"} /\ last'.status = "none")
          => /\ Len(lockers') = Len(lockers) + 1
             /\ lockers'[Len(lockers')].parent = last'.inst
             /\ lockers'[Len(lockers')].cryptoKey = lockers[last'.inst].cryptoKey
             /\ \A j \in DOMAIN lockers : lockers'[j].cryptoKey = lockers[j].cryptoKey
       /\ last'.op = "setCryptoKey"
          => \A j \in DOMAIN lockers :
                j # last'.inst => lockers'[j].cryptoKey = lockers[j].cryptoKey]_vars

\* The parent was given the key "q" while its child holds the key "p".
CryptoKeyCopiedWitness ==
    /\ last.op = "setCryptoKey" /\ last.val = Str(<<"q">>)
    /\ lockers[last.inst].cryptoKey = Str(<<"q">>)
    /\ \E j \in DOMAIN lockers :
        lockers[j].parent = last.inst /\ lockers[j].cryptoKey = Str(<<"p">>)

\* ------------------------------------------------------ C10: bind

\* C10: a bind(scope, key, def, attr) that returned has subscribed the
\* instance to the property and left the property as it was when defined,
\* and as get(key, def) when it was undefined; every notification that
\* carries a defined value (the property's current one) leaves get(key) of
\* the bound instance equal to it, and a notification carrying undefined
\* changes neither the storages nor publishes an event.
BindSeedsThenPersists ==
    [][/\ Returned("bind")
          => LET wt == watches'[Len(watches')]
                 L == lockers[last'.inst]
                 before == scopes[wt.scope][wt.index]
             IN /\ Len(watches') = Len(watches) + 1
                /\ wt.live /\ wt.locker = last'.inst /\ wt.key = last'.key
                /\ scopes'[wt.scope][wt.index] =
                      IF isDefined(before) THEN before
                      ELSE get(WorldOf(storage, L), L, last'.key, last'.val, 2, FALSE, TRUE).ret
       /\ Returned("notify")
          => \A h \in DOMAIN watches :
                watches'[h] # watches[h]
                => /\ last'.val = scopes[watches[h].scope][watches[h].index]
                   /\ last'.inst = watches[h].locker /\ last'.key = watches[h].key
                   /\ IF isDefined(last'.val)
                      THEN equals(GetOf(storage', lockers'[last'.inst], last'.key), last'.val)
                      ELSE storage' = storage /\ events' = <<>>]_vars

\* The property was seeded with the default "d" at bind time, the first
\* notification stored it, and the value 1 set later has just replaced it.
BindSeedsThenPersistsWitness ==
    /\ last.op = "notify" /\ last.status = "none" /\ last.val = Num(1)
    /\ Len(events) = 1 /\ events[1].oldValue = Str(<<"d">>)
    /\ GetOf(storage, lockers[last.inst], last.key) = Num(1)

\* ------------------------------------------------------ C11: unbind

\* C11: an unbind(scope, key, attr, keepStored) that returned leaves the
\* storages as they were when keepStored is set and has(key) false when it
\* is not; and no subscription made by a bind of that scope, key and attr
\* before the unbind writes to the storages or publishes an event when it
\* is notified afterwards.
UnbindStopsPersistence ==
    [][/\ Returned("unbind")
          => IF last'.val = Bool(TRUE)
             THEN storage' = storage
             ELSE ~HasOf(storage', lockers'[last'.inst], last'.key)
       /\ last'.op = "notify"
          => \A h \in DOMAIN watches :
                (watches[h].unbound /\ watches'[h] # watches[h])
                => (storage' = storage /\ events' = <<>>)]_vars

\* ------------------------------------------------------ C12: unsupported backend

CoreOps == {"put", "add", "get", "has", "forget", "pull", "all", "clean", "empty", "count"}

\* C12: every core operation called on an instance whose support flag is
\* false raises the unsupported-backend error and leaves the storages as
\* they were.
UnsupportedOperationsFail ==
    [][(/\ last'.op \in CoreOps
        /\ lockers[last'.inst].supported = Bool(FALSE))
       => (last'.status = "unsupported" /\ storage' = storage)]_vars

\* ------------------------------------------------------ C20: the probe is cached

\* C20: once the support flag of an instance is set no step changes it, and
\* supported(d) then returns it for every driver id d without touching the
\* storages; supported never raises, returns a boolean that is the flag
\* afterwards, and returns false when the first probe is asked for an
\* unregistered driver id.
ProbeRunsOnce ==
    [][/\ \A i \in DOMAIN lockers :
            lockers[i].supported # Undefined
            => /\ lockers'[i].supported = lockers[i].supported
               /\ (last'.op = "supported" /\ last'.inst = i)
                  => (last'.ret = lockers[i].supported /\ storage' = storage)
       /\ last'.op = "supported"
          => /\ last'.status = "none"
             /\ last'.ret \in {Bool(TRUE), Bool(FALSE)}
             /\ last'.ret = lockers'[last'.inst].supported
             /\ (lockers[last'.inst].supported = Undefined /\ last'.key = <<"cookie">>)
                => last'.ret = Bool(FALSE)]_vars

\* On a page whose Storage works, supported('local') has returned false,
\* the flag an earlier call set, and the entry under the probe key is still
\* there.
ProbeRunsOnceWitness ==
    /\ host.storage = "works"
    /\ last.op = "supported" /\ last.key = <<"local">> /\ last.ret = Bool(FALSE)
    /\ hasOwnProperty(storage["local"], ProbeKey)

\* ------------------------------------------------------ C13: add

\* The raw string stored under logical key k of instance L, if any.
StoredAt(st, L, k) == {e \in st[L.driver] : e.key = _getPrefix(L, k)}

\* C13: an add(k, v) that returned gave true exactly when has(k) was false
\* before and is true after, and false otherwise; when has(k) was true the
\* stored value is as before and no event was published.
AddReturnsWhetherItWrote ==
    [][Returned("add")
       => LET L == lockers[last'.inst]
              before == HasOf(storage, L, last'.key)
              after == HasOf(storage', L, last'.key)
          IN /\ last'.ret = Bool(~before /\ after)
             /\ before => /\ StoredAt(storage', L, last'.key) = StoredAt(storage, L, last'.key)
                          /\ events' = <<>>]_vars

\* ------------------------------------------------------ C14: pull

\* C14: a pull(k, def) that returned on a present key gave what get(k) gave
\* before and leaves has(k) false; on an absent key it gave def, changed no
\* entry of either storage and published no event.
PullReturnsAndRemoves ==
    [][Returned("pull")
       => LET L == lockers[last'.inst] IN
          IF HasOf(storage, L, last'.key)
          THEN /\ last'.ret = GetOf(storage, L, last'.key)
               /\ ~HasOf(storage', L, last'.key)
          ELSE /\ last'.ret = last'.val
               /\ storage' = storage
               /\ events' = <<>>]_vars

\* ------------------------------------------------------ C15: forget

\* The keys a forget step was called with.
ForgetKeys(o) == IF o.val.t = "array" THEN {o.val.a[j].s : j \in DOMAIN o.val.a} ELSE {o.key}

\* C15: forget never raises; after it has(k) is false for every key it was
\* given; it published exactly one 'forgotten' event for each of its keys
\* that was present and nothing else; with no key present it changed no
\* entry of either storage.
ForgetRemovesEachKey ==
    [][last'.op = "forget"
       => LET L == lockers[last'.inst]
              keys == ForgetKeys(last')
              present == {k \in keys : HasOf(storage, L, k)}
          IN /\ last'.status = "none"
             /\ \A k \in keys : ~HasOf(storage', L, k)
             /\ Len(events') = Cardinality(present)
             /\ \A k \in present :
                   \E j \in DOMAIN events' :
                      events'[j].name = "locker.item.forgotten" /\ events'[j].key = k
             /\ present = {} => storage' = storage]_vars

\* ------------------------------------------------------ C16: the crypto-key slot

\* A string with at least one character that is not whitespace.
NonBlankString(v) ==
    v.t = "string" /\ \E j \in DOMAIN v.s : v.s[j] \notin {" ", "\t", "\n"}

\* C16: in every state every instance's crypto-key slot is null or a
\* non-blank string; a setCryptoKey with anything else leaves the slot as it
\* was, and an instance derived from a parent whose slot is null has a null
\* slot.
CryptoKeySlotValid ==
    /\ [](\A i \in DOMAIN lockers :
            lockers[i].cryptoKey = Null \/ NonBlankString(lockers[i].cryptoKey))
    /\ [][/\ (last'.op = "setCryptoKey" /\ ~NonBlankString(last'.val))
             => lockers'[last'.inst].cryptoKey = lockers[last'.inst].cryptoKey
          /\ (/\ last'.op \in {"instance", "driver", "namespace"}
              /\ last'.status = "none"
              /\ lockers[last'.inst].cryptoKey = Null)
             => lockers'[Len(lockers')].cryptoKey = Null]_vars

\* A whitespace-only key was handed to an instance that holds the key "p",
\* and an instance derived from a parent without key exists.
CryptoKeySlotWitness ==
    /\ last.op = "setCryptoKey" /\ last.val = Str(<<" ", "\t", "\n">>)
    /\ lockers[last.inst].cryptoKey = Str(<<"p">>)
    /\ \E j \in DOMAIN lockers :
          /\ lockers[j].parent # 0
          /\ lockers[j].cryptoKey = Null
          /\ lockers[lockers[j].parent].cryptoKey = Str(<<"p">>)

\* ------------------------------------------------------ C17: clean's frame

\* C17: clean() leaves every entry of its driver whose physical key does
\* not encode a logical key of the instance's namespace as it was, and the
\* other driver's storage as it was.
CleanTouchesOnlyNamespace ==
    [][last'.op = "clean"
       => LET L == lockers[last'.inst]
              p == L.namespace \o L.separator
              Outside(S) == {e \in S : ~(Len(e.key) > Len(p) /\ SubSeq(e.key, 1, Len(p)) = p)}
          IN /\ Outside(storage'[L.driver]) = Outside(storage[L.driver])
             /\ \A d \in Drivers \ {L.driver} : storage'[d] = storage[d]]_vars

\* ------------------------------------------------------ C18: failed writes

\* C18: a put whose write the backend refused raised the quota error when
\* the backend's error has one of the three quota names and the
\* could-not-add error for its key otherwise, and left both storages as
\* they were and published no event.
WriteFailureClassified ==
    [][(last'.op = "put" /\ last'.ret.t = "string")
       => /\ last'.status =
               IF last'.ret.s[1] \in {"QUOTA_EXCEEDED_ERR", "NS_ERROR_DOM_QUOTA_REACHED",
                                      "QuotaExceededError"}
               THEN "quota" ELSE "writefailed"
          /\ storage' = storage
          /\ events' = <<>>]_vars

\* ------------------------------------------------------ C19: clearWatchers

\* C19: a clearWatchers() leaves no subscription live that the instance
\* made, and changes no property of a scope and no entry of a storage.
ClearWatchersDisposesAll ==
    [][Returned("clearWatchers")
       => /\ \A h \in DOMAIN watches' :
                watches'[h].locker = last'.inst => ~watches'[h].live
          /\ scopes' = scopes
          /\ storage' = storage]_vars

\* ------------------------------------------------------ C23: disposers are called once

\* C23: no disposer has been called more than once, and no disposer that
\* has been called is still held in an instance's watcher map.
DisposersCalledOnce ==
    /\ \A h \in DOMAIN watches : watches[h].calls <= 1
    /\ \A i \in DOMAIN lockers :
          \A x \in lockers[i].watchers : watches[x.handle].calls = 0

\* ------------------------------------------------------ C21: watcher ids

\* C21: two subscriptions of one instance whose (index, scope $id) pairs
\* differ have different watcher ids, so that neither takes the other's
\* place in the watcher map.
WatcherIdsInjective ==
    \A h \in DOMAIN watches, g \in DOMAIN watches :
        (/\ watches[h].locker = watches[g].locker
         /\ <<watches[h].index, watches[h].scope>> # <<watches[g].index, watches[g].scope>>)
        => WatcherId(watches[h].index, watches[h].scope)
              # WatcherId(watches[g].index, watches[g].scope)

\* ------------------------------------------------------ C22: the probe's frame

\* C22: the first operation of an instance, which runs the probe, leaves
\* every entry that was in either storage before the call as it was, other
\* than the entry of the key the operation is called for.
ProbeKeepsEntries ==
    [][(/\ last'.op \in {"supported", "has", "get", "put", "add", "forget", "pull",
                         "all", "count"}
        /\ lockers[last'.inst].supported = Undefined)
       => LET L == lockers[last'.inst]
              target == IF last'.op \in {"put", "add", "forget", "pull"}
                        THEN {_getPrefix(L, last'.key)} ELSE {}
          IN \A d \in Drivers :
                \A e \in storage[d] :
                   (d = L.driver /\ e.key \in target) \/ e \in storage'[d]]_vars

\* ------------------------------------------------------ C24: put over an unreadable entry

\* C24: every put(k, v, true) of a defined value on an instance that has a
\* crypto key returns, whatever the key holds.
EncryptedPutSucceeds ==
    [][(/\ last'.op = "put"
        /\ last'.enc
        /\ lockers[last'.inst].cryptoKey # Null)
       => last'.status = "none"]_vars

====
